---------------------------- MODULE Spec2Model ----------------------------
(***************************************************************************)
(* A model of the encoding-and-delivery core of ligno: the formatters of   *)
(* formatter.go (Simple, Terminal, JSON, LogFmt, escapeString) and the     *)
(* handlers (filter, combining, file, memory).                             *)
(*                                                                         *)
(* A Go string is a sequence of bytes (0..255); a Go interface{} value is  *)
(* a record [k, s, n]: k its dynamic type, s its bytes (strings, errors),  *)
(* n its number (ints, bools, times in unix seconds, levels).              *)
(***************************************************************************)
EXTENDS Integers, Sequences, FiniteSets, TLC

VARIABLES
    \* escapeString: the argument, the result, whether a call has returned
    es_s, es_ret, es_pc,
    \* formatters: the record handed to Format (ContextList as backing array
    \* plus length), the ContextList / Pairs as the front-end built them,
    \* the last formatter run and its result
    rec, rec0, fmt_last, fmt_out,
    \* combiningHandler: Handlers (their number), the position in Handle's
    \* loop, err, this call's invocations and results, the returned value,
    \* the invocation order of the previous call, the calls made
    ch_n, ch_pc, ch_i, ch_err, ch_calls, ch_res, ch_ret, ch_prev, ch_ncall,
    \* FilterLevelHandler: the threshold, the records handed to the filter,
    \* the records the wrapped handler received, the last call's record,
    \* invocations of the wrapped handler, the wrapped handler's result and
    \* the value returned
    fl_level, fl_sent, fl_recv, fl_last,
    \* fileHandler: fh.f, the state of every file handle opened so far, the
    \* log of operations, the last Handle's outcome
    fh_f, fh_files, fh_log, fh_last,
    \* memoryHandler: the writers started, mh.mu's holder, mh.buffer, each
    \* goroutine's position and locals, the reader's snapshots
    mh_n, mh_mu, mh_buffer, mh_pc, mh_loc, mh_snap

esVars == <<es_s, es_ret, es_pc>>
fmtVars == <<rec, rec0, fmt_last, fmt_out>>
chVars == <<ch_n, ch_pc, ch_i, ch_err, ch_calls, ch_res, ch_ret, ch_prev, ch_ncall>>
flVars == <<fl_level, fl_sent, fl_recv, fl_last>>
fhVars == <<fh_f, fh_files, fh_log, fh_last>>
mhVars == <<mh_n, mh_mu, mh_buffer, mh_pc, mh_loc, mh_snap>>
vars == <<esVars, fmtVars, chVars, flVars, fhVars, mhVars>>

---------------------------------------------------------------------------
(* Bounds of the model.                                                    *)

\* longest string handed to escapeString
MaxStrLen == 3
\* most key/value pairs in a record's ContextList, most pairs of spare
\* capacity behind them, most pairs given at the call site
MaxContext == 1
MaxSpare == 1
MaxPairs == 2
\* most sub-handlers of a combining handler, most Handle calls made on it
MaxHandlers == 3
MaxCalls == 2
\* most records handed to a filter
MaxEvents == 3
\* most Handle and Close calls made on a file handler
MaxOps == 5
\* most goroutines calling memoryHandler.Handle, most Messages calls
MaxWriters == 3
MaxReads == 2

---------------------------------------------------------------------------
(* Strings and runes.                                                      *)

RECURSIVE Concat(_)
\* the concatenation of a sequence of byte strings (successive Write calls)
Concat(ss) ==
    IF ss = <<>> THEN <<>> ELSE Head(ss) \o Concat(Tail(ss))

\* whether b is a UTF-8 continuation byte within lo..hi
InRange(s, i, lo, hi) ==
    i <= Len(s) /\ s[i] >= lo /\ s[i] <= hi

\* the rune and the width `for _, r := range s` yields at byte position i:
\* an invalid or truncated encoding yields utf8.RuneError (U+FFFD), width 1
DecodeRune(s, i) ==
    LET b0 == s[i]
        cont(j) == InRange(s, j, 128, 191)
        bad == [r |-> 65533, w |-> 1]
    IN  IF b0 < 128 THEN [r |-> b0, w |-> 1]
        ELSE IF b0 >= 194 /\ b0 <= 223
        THEN IF cont(i + 1)
             THEN [r |-> (b0 % 32) * 64 + (s[i + 1] % 64), w |-> 2]
             ELSE bad
        ELSE IF b0 >= 224 /\ b0 <= 239
        THEN IF /\ InRange(s, i + 1, IF b0 = 224 THEN 160 ELSE 128,
                                    IF b0 = 237 THEN 159 ELSE 191)
                /\ cont(i + 2)
             THEN [r |-> (b0 % 16) * 4096 + (s[i + 1] % 64) * 64
                            + (s[i + 2] % 64), w |-> 3]
             ELSE bad
        ELSE IF b0 >= 240 /\ b0 <= 244
        THEN IF /\ InRange(s, i + 1, IF b0 = 240 THEN 144 ELSE 128,
                                    IF b0 = 244 THEN 143 ELSE 191)
                /\ cont(i + 2) /\ cont(i + 3)
             THEN [r |-> (b0 % 8) * 262144 + (s[i + 1] % 64) * 4096
                            + (s[i + 2] % 64) * 64 + (s[i + 3] % 64), w |-> 4]
             ELSE bad
        ELSE bad

RECURSIVE RunesFrom(_, _)
RunesFrom(s, i) ==
    IF i > Len(s) THEN <<>>
    ELSE LET d == DecodeRune(s, i) IN <<d.r>> \o RunesFrom(s, i + d.w)

\* the runes `for _, r := range s` visits, in order
Runes(s) == RunesFrom(s, 1)

\* the bytes Buffer.WriteRune(r) appends: the UTF-8 encoding of r, that of
\* U+FFFD for a surrogate or an out-of-range rune
WriteRune(r) ==
    IF r < 128 THEN <<r>>
    ELSE IF r < 2048 THEN <<192 + (r \div 64), 128 + (r % 64)>>
    ELSE IF (r >= 55296 /\ r <= 57343) \/ r > 1114111 THEN <<239, 191, 189>>
    ELSE IF r < 65536
    THEN <<224 + (r \div 4096), 128 + ((r \div 64) % 64), 128 + (r % 64)>>
    ELSE <<240 + (r \div 262144), 128 + ((r \div 4096) % 64),
           128 + ((r \div 64) % 64), 128 + (r % 64)>>

\* one iteration of escapeString's second loop: what it writes for rune r
EscapeRune(r) ==
    IF r = 92 \/ r = 34 THEN <<92, r>>          \* '\\', '"'
    ELSE IF r = 10 THEN <<92, 110>>             \* \n
    ELSE IF r = 13 THEN <<92, 114>>             \* \r
    ELSE IF r = 9 THEN <<92, 116>>              \* \t
    ELSE WriteRune(r)

escapeString(s) ==
    LET rs == Runes(s)
        needsQuotes ==
            \E i \in 1..Len(rs) : rs[i] <= 32 \/ rs[i] = 61 \/ rs[i] = 34
        needsEscape ==
            \E i \in 1..Len(rs) : rs[i] \in {92, 34, 10, 13, 9}
        e == <<34>> \o Concat([i \in 1..Len(rs) |-> EscapeRune(rs[i])])
                    \o <<34>>
    IN  IF ~needsEscape /\ ~needsQuotes THEN s
        ELSE IF needsQuotes THEN e
        ELSE SubSeq(e, 2, Len(e) - 1)

---------------------------------------------------------------------------
(* Values and records.                                                     *)

VNil == [k |-> "nil", s |-> <<>>, n |-> 0]
VStr(s) == [k |-> "string", s |-> s, n |-> 0]
VInt(n) == [k |-> "int", s |-> <<>>, n |-> n]
VBool(b) == [k |-> "bool", s |-> <<>>, n |-> IF b THEN 1 ELSE 0]
\* a time.Time, n seconds after the unix epoch, in UTC
VTime(n) == [k |-> "time", s |-> <<>>, n |-> n]
\* a Level
VLevel(n) == [k |-> "level", s |-> <<>>, n |-> n]
\* a func value: a type encoding/json refuses to marshal
VFunc == [k |-> "func", s |-> <<>>, n |-> 1]

errorKey == <<80, 65, 82, 83, 69, 95, 69, 82, 82, 79, 82>>   \* "PARSE_ERROR"
S_ts == <<116, 115>>                                         \* "ts"
S_lvl == <<108, 118, 108>>                                   \* "lvl"
S_msg == <<109, 115, 103>>                                   \* "msg"
S_file == <<102, 105, 108, 101>>                             \* "file"
S_line == <<108, 105, 110, 101>>                             \* "line"
S_JSONError == <<74, 83, 79, 78, 69, 114, 114, 111, 114>>    \* "JSONError"
\* err.Error() of json.Marshal's UnsupportedTypeError, abridged
S_unsupported == <<106, 115, 111, 110, 58>>                  \* "json:"

RECURSIVE Digits(_)
Digits(n) ==
    IF n < 10 THEN <<48 + n>> ELSE Digits(n \div 10) \o <<48 + (n % 10)>>

\* strconv.Itoa, fmt.Sprintf("%d", n)
Itoa(n) == IF n < 0 THEN <<45>> \o Digits(0 - n) ELSE Digits(n)

\* Time.Format(DefaultTimeFormat): RFC3339Nano, of the first ten seconds
\* after the epoch: 1970-01-01T00:00:0nZ
TimeFormat(n) ==
    <<49, 57, 55, 48, 45, 48, 49, 45, 48, 49, 84, 48, 48, 58, 48, 48, 58, 48>>
        \o Digits(n) \o <<90>>

\* Time.String(): 1970-01-01 00:00:0n +0000 UTC
TimeString(n) ==
    <<49, 57, 55, 48, 45, 48, 49, 45, 48, 49, 32, 48, 48, 58, 48, 48, 58, 48>>
        \o Digits(n) \o <<32, 43, 48, 48, 48, 48, 32, 85, 84, 67>>

\* Level.String(): DEBUG < INFO < WARN < ERROR
LevelName(l) ==
    CASE l = 1 -> <<68, 69, 66, 85, 71>>
      [] l = 2 -> <<73, 78, 70, 79>>
      [] l = 3 -> <<87, 65, 82, 78>>
      [] OTHER -> <<69, 82, 82, 79, 82>>

\* the longest level name
levelNameMaxLength == 5

\* theme.ForLevel(level) of NoColorTheme: no decoration
levelColor(l, name) == name

\* fmt.Sprintf("%+v", v)
SprintfV(v) ==
    CASE v.k = "nil" -> <<60, 110, 105, 108, 62>>            \* <nil>
      [] v.k = "string" -> v.s
      [] v.k = "int" -> Itoa(v.n)
      [] v.k = "bool" -> IF v.n = 1 THEN <<116, 114, 117, 101>>
                                    ELSE <<102, 97, 108, 115, 101>>
      [] v.k = "time" -> TimeString(v.n)
      [] v.k = "level" -> LevelName(v.n)
      [] OTHER -> <<48, 120>> \o Digits(v.n)                 \* an address

\* (the values of the model hold no floats: that case is left out)
formatLogfmtValue(v) ==
    CASE v.k = "nil" -> <<110, 105, 108>>                    \* nil
      [] v.k = "time" -> TimeFormat(v.n)
      [] v.k = "bool" -> IF v.n = 1 THEN <<116, 114, 117, 101>>
                                    ELSE <<102, 97, 108, 115, 101>>
      [] v.k = "int" -> Itoa(v.n)
      [] v.k = "string" -> escapeString(v.s)
      [] OTHER -> escapeString(SprintfV(v))

\* unicode.IsPrint, on ASCII and Latin-1; everything above is taken as
\* printable (U+FFFD is)
IsPrint(r) == (r >= 32 /\ r <= 126) \/ (r > 160 /\ r # 173)

needsQuote(r) ==
    r = 32 \/ r = 34 \/ r = 92 \/ r = 61 \/ ~IsPrint(r)

\* record.ContextList as the formatter sees it: the first ctxLen elements
\* of its backing array
ContextList(r) == SubSeq(r.ctx, 1, r.ctxLen)

\* append(record.ContextList, record.Pairs...): the elements are written
\* into ContextList's backing array when its capacity holds them, into a
\* fresh array otherwise.  arr: the backing array afterwards; res: the
\* slice returned
appendContext(r) ==
    LET n == r.ctxLen + Len(r.Pairs)
        res == ContextList(r) \o r.Pairs
    IN  IF n <= Len(r.ctx)
        THEN [arr |-> res \o SubSeq(r.ctx, n + 1, Len(r.ctx)), res |-> res]
        ELSE [arr |-> r.ctx, res |-> res]

\* append([]interface{}{"ts", Time, "lvl", Level, "msg", Message}, Pairs...)
defaultInfo(r, pairs) ==
    <<VStr(S_ts), VTime(r.Time), VStr(S_lvl), VLevel(r.Level),
      VStr(S_msg), VStr(r.Message)>> \o pairs

\* if record.Line > 0 { append(Pairs, "file", File, "line", Line) }
callSite(r, pairs) ==
    IF r.Line > 0
    THEN pairs \o <<VStr(S_file), VStr(r.File), VStr(S_line), VInt(r.Line)>>
    ELSE pairs

\* the keys of an assembled pair list, and whether each is a string
KeyAt(pairs, j) == pairs[2 * j - 1]
ValAt(pairs, j) == pairs[2 * j]
NPairs(pairs) == Len(pairs) \div 2
AllKeysStrings(pairs) ==
    \A j \in 1..NPairs(pairs) : KeyAt(pairs, j).k = "string"

\* a formatter's outcome: st "ok" with the bytes returned, or "panic" (a
\* failed type assertion unwinds the caller); ctx is ContextList's backing
\* array when the formatter is left; pairs the assembled record.Pairs;
\* fields what was emitted, entry by entry
Outcome(st, out, ctx, pairs, fields) ==
    [st |-> st, out |-> out, ctx |-> ctx, pairs |-> pairs, fields |-> fields]

\* buffPool.Get() is taken to hand out an empty buffer, and the bytes a
\* formatter returns are taken as a value of their own
SimpleFormat(r) ==
    LET loc == IF r.File # <<>> /\ r.Line > 0
               THEN <<91>> \o r.File \o <<58>> \o Itoa(r.Line) \o <<93>>
               ELSE <<>>
    IN  Outcome("ok",
                TimeFormat(r.Time) \o <<32>> \o r.Message \o <<32>> \o loc
                    \o <<10>>,
                r.ctx, r.Pairs, <<>>)

\* one iteration of ThemedTerminalFormat's loop, for a string key
TerminalPair(pairs, j) ==
    LET k == KeyAt(pairs, j).s
        rs == Runes(k)
        keyQuote == (\E i \in 1..Len(rs) : needsQuote(rs[i])) \/ k = <<>>
        q == IF keyQuote THEN <<34>> ELSE <<>>
    IN  q \o k \o q \o <<61, 34>> \o SprintfV(ValAt(pairs, j)) \o <<34>>
          \o (IF 2 * (j - 1) < Len(pairs) - 2 THEN <<32>> ELSE <<>>)

ThemedTerminalFormat(r) ==
    LET a == appendContext(r)
        pairs == defaultInfo(r, a.res)
        levelName == LevelName(r.Level)
        padSpaces == levelNameMaxLength - Len(levelName) + 2
        head == levelColor(r.Level, levelName)
                  \o [i \in 1..padSpaces |-> 32] \o <<32>> \o r.Message
    IN  IF ~AllKeysStrings(pairs)
        THEN Outcome("panic", <<>>, a.arr, pairs, <<>>)
        ELSE Outcome("ok",
                head \o <<32, 91>>
                  \o Concat([j \in 1..NPairs(pairs) |-> TerminalPair(pairs, j)])
                  \o <<93, 10>>,
                a.arr, pairs,
                [j \in 1..NPairs(pairs) |->
                    <<KeyAt(pairs, j).s, SprintfV(ValAt(pairs, j))>>])

\* for idx := range record.ContextList { ContextList[idx] = Sprintf("%+v") }
flattenContext(r) ==
    [r EXCEPT !.ctx = [i \in 1..Len(r.ctx) |->
        IF i <= r.ctxLen THEN VStr(SprintfV(r.ctx[i])) ELSE r.ctx[i]]]

\* tmpMap after the loop over the pairs: a later pair replaces an earlier
\* one of the same key
tmpMap(pairs) ==
    LET keys == {KeyAt(pairs, j).s : j \in 1..NPairs(pairs)}
        last(k) == CHOOSE j \in 1..NPairs(pairs) :
                      /\ KeyAt(pairs, j).s = k
                      /\ \A i \in 1..NPairs(pairs) :
                            KeyAt(pairs, i).s = k => i <= j
    IN  [k \in keys |-> ValAt(pairs, last(k))]

\* json.Marshal / MarshalIndent of the map: the object, or an error for a
\* value of a type encoding/json does not support; the bytes themselves are
\* encoding/json's and are kept as the object they encode
jsonMarshalFails(m) == \E k \in DOMAIN m : m[k].k = "func"

JSONFormat(pretty, r) ==
    LET f == flattenContext(r)
        a == appendContext(f)
        pairs == callSite(r, defaultInfo(r, a.res))
    IN  IF ~AllKeysStrings(pairs)
        THEN Outcome("panic", <<>>, a.arr, pairs, <<>>)
        ELSE LET m == tmpMap(pairs)
             IN  Outcome("ok",
                    [pretty |-> pretty, JSONError |-> jsonMarshalFails(m)],
                    a.arr, pairs,
                    IF jsonMarshalFails(m)
                    THEN [k \in {S_JSONError} |-> VStr(S_unsupported)]
                    ELSE m)

\* one iteration of LogFmtFormat's loop: the key and the value written.
\* k, ok := Pairs[i].(string) leaves k the empty string when the key is no
\* string, and that k is what formatLogfmtValue is then given
LogFmtPair(pairs, j) ==
    LET ok == KeyAt(pairs, j).k = "string"
        k == IF ok THEN KeyAt(pairs, j).s ELSE <<>>
    IN  IF ok THEN <<k, formatLogfmtValue(ValAt(pairs, j))>>
        ELSE <<errorKey, formatLogfmtValue(VStr(k))>>

LogFmtFormat(r) ==
    LET a == appendContext(r)
        pairs == callSite(r, defaultInfo(r, a.res))
        fields == [j \in 1..NPairs(pairs) |-> LogFmtPair(pairs, j)]
    IN  Outcome("ok",
            Concat([j \in 1..NPairs(pairs) |->
                (IF j # 1 THEN <<32>> ELSE <<>>)
                    \o fields[j][1] \o <<61>> \o fields[j][2]])
              \o <<10>>,
            a.arr, pairs, fields)

---------------------------------------------------------------------------
(* escapeString, called on every string of a small alphabet.               *)

\* tab, newline, carriage return, space, '"', '=', '\\', 'a', the two bytes
\* of U+00E9, and 0xFF, which no UTF-8 encoding holds
Alphabet == {9, 10, 13, 32, 34, 61, 92, 97, 195, 169, 255}

RECURSIVE SeqsUpTo(_, _)
\* the sequences over S of length at most n
SeqsUpTo(S, n) ==
    IF n = 0 THEN {<<>>}
    ELSE LET shorter == SeqsUpTo(S, n - 1)
         IN  shorter \cup {Append(q, x) : q \in shorter, x \in S}

EscapeCall ==
    /\ es_pc = "idle"
    /\ \E s \in SeqsUpTo(Alphabet, MaxStrLen) :
          /\ es_s' = s
          /\ es_ret' = escapeString(s)
    /\ es_pc' = "returned"
    /\ UNCHANGED <<fmtVars, chVars, flVars, fhVars, mhVars>>

---------------------------------------------------------------------------
(* The formatters, run on the records the front-end may hand over.         *)

\* Record{}: the zero value
ZeroRecord ==
    [Time |-> 0, Level |-> 0, Message |-> <<>>, ctx |-> <<>>, ctxLen |-> 0,
     Pairs |-> <<>>, File |-> <<>>, Line |-> 0]

NoOutcome == Outcome("none", <<>>, <<>>, <<>>, <<>>)

\* keys: "k", "msg" (the key of a default field), and 42, which is no string
Keys == {VStr(<<107>>), VStr(S_msg), VInt(42)}
\* values: "x", 42, a func
Vals == {VStr(<<120>>), VInt(42), VFunc}

RECURSIVE PairLists(_)
\* the alternating key/value sequences of exactly n pairs
PairLists(n) ==
    IF n = 0 THEN {<<>>}
    ELSE {q \o <<k, v>> : q \in PairLists(n - 1), k \in Keys, v \in Vals}

\* the record of a logger whose context is c, with spare pairs of capacity
\* behind it, logging "hi" at level 2 with the pairs p from line `line`
Record(c, spare, p, line) ==
    [Time |-> 1, Level |-> 2, Message |-> <<104, 105>>,
     ctx |-> c \o [i \in 1..(2 * spare) |-> VNil], ctxLen |-> Len(c),
     Pairs |-> p, File |-> IF line > 0 THEN <<102, 46, 103, 111>> ELSE <<>>,
     Line |-> line]

\* the front-end builds a record
NewRecord ==
    /\ fmt_last.f = "none"
    /\ \E c \in UNION {PairLists(n) : n \in 0..MaxContext},
          spare \in 0..MaxSpare,
          p \in UNION {PairLists(n) : n \in 0..MaxPairs},
          line \in {0, 7} :
          LET r == Record(c, spare, p, line)
          IN  /\ rec' = r
              /\ rec0' = r
              /\ fmt_last' = [f |-> "new", arg |-> r]
    /\ UNCHANGED fmt_out
    /\ UNCHANGED <<esVars, chVars, flVars, fhVars, mhVars>>

\* a handler calls formatter.Format(record): the record is passed by value,
\* its ContextList and Pairs still share their backing arrays with the
\* caller's, so what the formatter writes into them stays written
Format(name, o) ==
    /\ fmt_last.f # "none"
    /\ fmt_out.st # "panic"
    /\ fmt_last' = [f |-> name, arg |-> rec]
    /\ fmt_out' = o
    /\ rec' = [rec EXCEPT !.ctx = o.ctx]
    /\ UNCHANGED rec0
    /\ UNCHANGED <<esVars, chVars, flVars, fhVars, mhVars>>

FormatSimple == Format("Simple", SimpleFormat(rec))
FormatTerminal == Format("Terminal", ThemedTerminalFormat(rec))
FormatJSON == \E pretty \in BOOLEAN : Format("JSON", JSONFormat(pretty, rec))
FormatLogFmt == Format("LogFmt", LogFmtFormat(rec))

---------------------------------------------------------------------------
(* combiningHandler.  A sub-handler's Handle returns nil ("ok"), returns   *)
(* an error ("err") or panics ("panic", as fileHandler does when the file  *)
(* cannot be opened).  nil is 0; the error of sub-handler i is i.          *)

Results == {"ok", "err", "panic"}

\* err = h.Handle(record), for the i-th handler
chErr(i, result) == IF result = "ok" THEN 0 ELSE i

\* a loop that gives up at the first error
chNextStopOnError(i, n, result) == IF result = "err" THEN n + 1 ELSE i + 1

\* for _, h := range ch.Handlers: the handler visited after the i-th
chNext(i, n, result) == i + 1

\* CombiningHandler(handlers...)
CombiningHandler ==
    /\ ch_pc = "new"
    /\ \E n \in 0..MaxHandlers : ch_n' = n
    /\ ch_pc' = "idle"
    /\ UNCHANGED <<ch_i, ch_err, ch_calls, ch_res, ch_ret, ch_prev, ch_ncall>>
    /\ UNCHANGED <<esVars, fmtVars, flVars, fhVars, mhVars>>

\* Handle is entered: var err error
CombiningHandleCall ==
    /\ ch_pc \in {"idle", "returned"}
    /\ ch_ncall < MaxCalls
    /\ ch_pc' = "loop"
    /\ ch_i' = 1
    /\ ch_err' = 0
    /\ ch_calls' = <<>>
    /\ ch_res' = <<>>
    /\ ch_prev' = IF ch_pc = "returned" THEN ch_calls ELSE ch_prev
    /\ ch_ncall' = ch_ncall + 1
    /\ UNCHANGED <<ch_n, ch_ret>>
    /\ UNCHANGED <<esVars, fmtVars, flVars, fhVars, mhVars>>

\* one iteration of the loop: the ch_i-th sub-handler handles the record
CombiningHandleStep ==
    /\ ch_pc = "loop"
    /\ ch_i <= ch_n
    /\ \E result \in Results :
          /\ ch_calls' = Append(ch_calls, ch_i)
          /\ ch_res' = Append(ch_res, result)
          /\ IF result = "panic"
             THEN ch_pc' = "panicked" /\ UNCHANGED <<ch_i, ch_err>>
             ELSE /\ ch_err' = chErr(ch_i, result)
                  /\ ch_i' = chNext(ch_i, ch_n, result)
                  /\ ch_pc' = "loop"
    /\ UNCHANGED <<ch_n, ch_ret, ch_prev, ch_ncall>>
    /\ UNCHANGED <<esVars, fmtVars, flVars, fhVars, mhVars>>

\* return err
CombiningHandleReturn ==
    /\ ch_pc = "loop"
    /\ ch_i > ch_n
    /\ ch_ret' = ch_err
    /\ ch_pc' = "returned"
    /\ UNCHANGED <<ch_n, ch_i, ch_err, ch_calls, ch_res, ch_prev, ch_ncall>>
    /\ UNCHANGED <<esVars, fmtVars, flVars, fhVars, mhVars>>

---------------------------------------------------------------------------
(* FilterHandler and FilterLevelHandler.  Levels are 1..4 (DEBUG, INFO,    *)
(* WARN, ERROR); a record is its position in the stream and its level.     *)

Levels == 1..4

\* a predicate that lets the threshold itself fall through
levelPredicateStrict(level, record) == record.Level > level

\* FilterLevelHandler's levelPredicate
levelPredicate(level, record) == record.Level >= level

\* FilterHandler's HandlerFunc: with the predicate's verdict and the result
\* the wrapped handler would give, whether the wrapped handler is invoked
\* and what comes back
FilterHandler(pass, inner) ==
    IF pass THEN [invoked |-> 1, ret |-> inner]
    ELSE [invoked |-> 0, ret |-> "ok"]

\* FilterLevelHandler(level, handler)
FilterLevelHandler ==
    /\ fl_level = 0
    /\ \E level \in Levels : fl_level' = level
    /\ UNCHANGED <<fl_sent, fl_recv, fl_last>>
    /\ UNCHANGED <<esVars, fmtVars, chVars, fhVars, mhVars>>

\* one Handle call on the filter
FilterHandle ==
    /\ fl_level # 0
    /\ fl_last.ret # "panic"
    /\ Len(fl_sent) < MaxEvents
    /\ \E l \in Levels, inner \in Results :
          LET record == [id |-> Len(fl_sent) + 1, Level |-> l]
              h == FilterHandler(levelPredicate(fl_level, record), inner)
          IN  /\ fl_sent' = Append(fl_sent, record)
              /\ fl_recv' = IF h.invoked = 1 THEN Append(fl_recv, record)
                            ELSE fl_recv
              /\ fl_last' = [record |-> record, invoked |-> h.invoked,
                             inner |-> inner, ret |-> h.ret]
    /\ UNCHANGED fl_level
    /\ UNCHANGED <<esVars, fmtVars, chVars, fhVars, mhVars>>

---------------------------------------------------------------------------
(* fileHandler.  fh.f is 0 (nil) or the number of a file handle; fh_files  *)
(* holds the state of every handle os.OpenFile has returned.               *)

\* a Close that also forgets the handle
fileAfterCloseNil(f) == 0

\* fh.f once Close has returned: Close closes the file and keeps fh.f
fileAfterClose(f) == f

\* f.Write: ErrClosed on a closed file, else what the disk says
fileWrite(files, h, diskOk) ==
    IF files[h] = "closed" THEN "err"
    ELSE IF diskOk THEN "ok" ELSE "err"

\* FileHandler(fileName, formatter)
FileHandler ==
    /\ fh_last.op = "none"
    /\ fh_last' = [fh_last EXCEPT !.op = "new"]
    /\ UNCHANGED <<fh_f, fh_files, fh_log>>
    /\ UNCHANGED <<esVars, fmtVars, chVars, flVars, mhVars>>

\* fileHandler.Handle; a caller that recovers from the panic may call again
FileHandle ==
    /\ fh_last.op # "none"
    /\ Len(fh_log) < MaxOps
    /\ \E openOk \in BOOLEAN, diskOk \in BOOLEAN :
          LET opening == fh_f = 0
              files == IF opening /\ openOk THEN Append(fh_files, "open")
                       ELSE fh_files
              f == IF opening /\ openOk THEN Len(files) ELSE fh_f
              entry == IF opening /\ ~openOk
                       THEN [op |-> "Handle", opened |-> FALSE, h |-> 0,
                             ret |-> "panic"]
                       ELSE [op |-> "Handle", opened |-> opening, h |-> f,
                             ret |-> fileWrite(files, f, diskOk)]
          IN  /\ fh_f' = f
              /\ fh_files' = files
              /\ fh_log' = Append(fh_log, entry)
              /\ fh_last' = entry
    /\ UNCHANGED <<esVars, fmtVars, chVars, flVars, mhVars>>

\* fileHandler.Close: fh.f.Close(), its error dropped; on a nil fh.f it
\* closes nothing
FileClose ==
    /\ fh_last.op # "none"
    /\ Len(fh_log) < MaxOps
    /\ LET entry == [op |-> "Close", opened |-> FALSE, h |-> fh_f,
                     ret |-> "ok"]
       IN  /\ fh_files' = IF fh_f = 0 THEN fh_files
                          ELSE [fh_files EXCEPT ![fh_f] = "closed"]
           /\ fh_f' = fileAfterClose(fh_f)
           /\ fh_log' = Append(fh_log, entry)
           /\ fh_last' = entry
    /\ UNCHANGED <<esVars, fmtVars, chVars, flVars, mhVars>>

---------------------------------------------------------------------------
(* memoryHandler.  Goroutines 1..mh_n each call Handle once, with a record *)
(* of their own; goroutine mh_n + 1 calls Messages.  mh_mu is 0 or the     *)
(* goroutine holding mh.mu.                                                *)

\* the record goroutine p logs, and what the handler's formatter makes of it
WriterRecord(p) ==
    [ZeroRecord EXCEPT !.Time = 1, !.Level = 2, !.Message = <<96 + p>>]
Formatted(p) == SimpleFormat(WriterRecord(p)).out

Reader == mh_n + 1

\* a Lock that never waits
mhLockFreeAlways(mu) == TRUE

\* mh.mu.Lock() returns only when no goroutine holds the mutex
mhLockFree(mu) == mu = 0

\* MemoryHandler(formatter), and the goroutines are started
MemoryHandler ==
    /\ mh_n = 0
    /\ \E n \in 1..MaxWriters :
          /\ mh_n' = n
          /\ mh_pc' = [p \in 1..(n + 1) |-> "start"]
          /\ mh_loc' = [p \in 1..(n + 1) |->
                            [src |-> <<>>, buf |-> <<>>, after |-> FALSE]]
    /\ UNCHANGED <<mh_mu, mh_buffer, mh_snap>>
    /\ UNCHANGED <<esVars, fmtVars, chVars, flVars, fhVars>>

\* Handle: mh.mu.Lock()
MemoryHandleLock(p) ==
    /\ mh_pc[p] = "start"
    /\ mhLockFree(mh_mu)
    /\ mh_mu' = p
    /\ mh_pc' = [mh_pc EXCEPT ![p] = "locked"]
    /\ UNCHANGED <<mh_n, mh_buffer, mh_loc, mh_snap>>
    /\ UNCHANGED <<esVars, fmtVars, chVars, flVars, fhVars>>

\* Handle: the operands of append(mh.buffer, Format(record)) are evaluated
MemoryHandleRead(p) ==
    /\ mh_pc[p] = "locked"
    /\ mh_loc' = [mh_loc EXCEPT ![p].src = mh_buffer]
    /\ mh_pc' = [mh_pc EXCEPT ![p] = "read"]
    /\ UNCHANGED <<mh_n, mh_mu, mh_buffer, mh_snap>>
    /\ UNCHANGED <<esVars, fmtVars, chVars, flVars, fhVars>>

\* Handle: mh.buffer = the appended slice
MemoryHandleStore(p) ==
    /\ mh_pc[p] = "read"
    /\ mh_buffer' = Append(mh_loc[p].src, Formatted(p))
    /\ mh_pc' = [mh_pc EXCEPT ![p] = "stored"]
    /\ UNCHANGED <<mh_n, mh_mu, mh_loc, mh_snap>>
    /\ UNCHANGED <<esVars, fmtVars, chVars, flVars, fhVars>>

\* Handle: return nil, the deferred mh.mu.Unlock() runs
MemoryHandleReturn(p) ==
    /\ mh_pc[p] = "stored"
    /\ mh_mu' = 0
    /\ mh_pc' = [mh_pc EXCEPT ![p] = "done"]
    /\ UNCHANGED <<mh_n, mh_buffer, mh_loc, mh_snap>>
    /\ UNCHANGED <<esVars, fmtVars, chVars, flVars, fhVars>>

AllHandled == \A p \in 1..mh_n : mh_pc[p] = "done"

\* Messages is called; after: every Handle call had returned by then
MessagesCall ==
    /\ mh_n # 0
    /\ mh_pc[Reader] = "start"
    /\ Len(mh_snap) < MaxReads
    /\ mh_loc' = [mh_loc EXCEPT ![Reader] =
                    [src |-> <<>>, buf |-> <<>>, after |-> AllHandled]]
    /\ mh_pc' = [mh_pc EXCEPT ![Reader] = "called"]
    /\ UNCHANGED <<mh_n, mh_mu, mh_buffer, mh_snap>>
    /\ UNCHANGED <<esVars, fmtVars, chVars, flVars, fhVars>>

\* Messages: mh.mu.Lock(); make([]string, 0, len(mh.buffer)); the range
\* expression mh.buffer is evaluated
MessagesLock ==
    /\ mh_n # 0
    /\ mh_pc[Reader] = "called"
    /\ mhLockFree(mh_mu)
    /\ mh_mu' = Reader
    /\ mh_loc' = [mh_loc EXCEPT ![Reader].src = mh_buffer]
    /\ mh_pc' = [mh_pc EXCEPT ![Reader] = "copy"]
    /\ UNCHANGED <<mh_n, mh_buffer, mh_snap>>
    /\ UNCHANGED <<esVars, fmtVars, chVars, flVars, fhVars>>

\* Messages: one iteration, messages = append(messages, string(msg))
MessagesCopy ==
    /\ mh_n # 0
    /\ mh_pc[Reader] = "copy"
    /\ Len(mh_loc[Reader].buf) < Len(mh_loc[Reader].src)
    /\ mh_loc' = [mh_loc EXCEPT ![Reader].buf =
                    Append(@, mh_loc[Reader].src[Len(@) + 1])]
    /\ UNCHANGED <<mh_n, mh_mu, mh_buffer, mh_pc, mh_snap>>
    /\ UNCHANGED <<esVars, fmtVars, chVars, flVars, fhVars>>

\* Messages: return messages, the deferred mh.mu.Unlock() runs
MessagesReturn ==
    /\ mh_n # 0
    /\ mh_pc[Reader] = "copy"
    /\ Len(mh_loc[Reader].buf) = Len(mh_loc[Reader].src)
    /\ mh_snap' = Append(mh_snap, [after |-> mh_loc[Reader].after,
                                   messages |-> mh_loc[Reader].buf])
    /\ mh_mu' = 0
    /\ mh_pc' = [mh_pc EXCEPT ![Reader] = "start"]
    /\ UNCHANGED <<mh_n, mh_buffer, mh_loc>>
    /\ UNCHANGED <<esVars, fmtVars, chVars, flVars, fhVars>>

---------------------------------------------------------------------------
Init ==
    /\ es_s = <<>> /\ es_ret = <<>> /\ es_pc = "idle"
    /\ rec = ZeroRecord /\ rec0 = ZeroRecord
    /\ fmt_last = [f |-> "none", arg |-> ZeroRecord]
    /\ fmt_out = NoOutcome
    /\ ch_n = 0 /\ ch_pc = "new" /\ ch_i = 0 /\ ch_err = 0 /\ ch_calls = <<>>
    /\ ch_res = <<>> /\ ch_ret = 0 /\ ch_prev = <<>> /\ ch_ncall = 0
    /\ fl_level = 0 /\ fl_sent = <<>> /\ fl_recv = <<>>
    /\ fl_last = [record |-> [id |-> 0, Level |-> 0], invoked |-> 0,
                  inner |-> "ok", ret |-> "ok"]
    /\ fh_f = 0 /\ fh_files = <<>> /\ fh_log = <<>>
    /\ fh_last = [op |-> "none", opened |-> FALSE, h |-> 0, ret |-> "ok"]
    /\ mh_n = 0 /\ mh_mu = 0 /\ mh_buffer = <<>> /\ mh_pc = <<>>
    /\ mh_loc = <<>> /\ mh_snap = <<>>

NextEscape == EscapeCall
SpecEscape == Init /\ [][NextEscape]_vars

NextFormat ==
    NewRecord \/ FormatSimple \/ FormatTerminal \/ FormatJSON \/ FormatLogFmt
SpecFormat == Init /\ [][NextFormat]_vars

NextCombining ==
    \/ CombiningHandler
    \/ CombiningHandleCall
    \/ CombiningHandleStep
    \/ CombiningHandleReturn
SpecCombining == Init /\ [][NextCombining]_vars

NextFilter == FilterLevelHandler \/ FilterHandle
SpecFilter == Init /\ [][NextFilter]_vars

NextFile == FileHandler \/ FileHandle \/ FileClose
SpecFile == Init /\ [][NextFile]_vars

NextMemory ==
    \/ MemoryHandler
    \/ \E p \in 1..mh_n : MemoryHandleLock(p)
    \/ \E p \in 1..mh_n : MemoryHandleRead(p)
    \/ \E p \in 1..mh_n : MemoryHandleStore(p)
    \/ \E p \in 1..mh_n : MemoryHandleReturn(p)
    \/ MessagesCall
    \/ MessagesLock
    \/ MessagesCopy
    \/ MessagesReturn
SpecMemory == Init /\ [][NextMemory]_vars

---------------------------------------------------------------------------
(* Properties of the formatters.                                           *)

Formatters == {"Simple", "Terminal", "JSON", "LogFmt"}

\* whether the byte string frag occurs in s
Contains(s, frag) ==
    \E i \in 0..(Len(s) - Len(frag)) : SubSeq(s, i + 1, i + Len(frag)) = frag

\* the field list of a record: ts, lvl, msg, the static context, the
\* dynamic pairs, then file and line when a call site is present
FieldList(r) ==
    <<VStr(S_ts), VTime(r.Time), VStr(S_lvl), VLevel(r.Level),
      VStr(S_msg), VStr(r.Message)>>
      \o ContextList(r) \o r.Pairs
      \o (IF r.Line > 0
          THEN <<VStr(S_file), VStr(r.File), VStr(S_line), VInt(r.Line)>>
          ELSE <<>>)

\* C4: Format never fails: whichever of the four formatters was run on a
\* record of even-length ContextList and Pairs, a key that is no string
\* included, it returned bytes and did not panic.
C4_FormatNeverFails ==
    fmt_last.f \in Formatters => fmt_out.st = "ok"

\* C5: in LogFmtFormat's output every pair whose key is no string appears
\* as PARSE_ERROR= followed by the encoding of that key: PARSE_ERROR=42 for
\* the pair (42, "x").
C5_ParseErrorCarriesKey ==
    fmt_last.f = "LogFmt" =>
        \A j \in 1..NPairs(fmt_out.pairs) :
            KeyAt(fmt_out.pairs, j).k # "string" =>
                Contains(fmt_out.out,
                         errorKey \o <<61>>
                            \o formatLogfmtValue(KeyAt(fmt_out.pairs, j)))

\* C6: no formatter mutates the record: once Format has returned, every
\* element of ContextList and of Pairs holds the value the front-end put
\* there.
C6_RecordNotMutated ==
    (fmt_last.f \in Formatters /\ fmt_out.st = "ok") =>
        /\ ContextList(rec) = ContextList(rec0)
        /\ rec.Pairs = rec0.Pairs

\* C7: what JSONFormat and LogFmtFormat emit when they return is the field
\* list, pair by pair: as many entries as the list has pairs, the entry of
\* each pair under that pair's key, a repeated key making a further entry
\* (the JSONError fallback and the PARSE_ERROR substitution apart).
C7_EveryPairItsOwnEntry ==
    LET want == FieldList(fmt_last.arg)
    IN  /\ (fmt_last.f = "LogFmt" /\ fmt_out.st = "ok") =>
              /\ Len(fmt_out.fields) = NPairs(want)
              /\ \A j \in 1..NPairs(want) :
                    fmt_out.fields[j][1] =
                        IF KeyAt(want, j).k = "string" THEN KeyAt(want, j).s
                        ELSE errorKey
        /\ (fmt_last.f = "JSON" /\ fmt_out.st = "ok" /\ ~fmt_out.out.JSONError) =>
              /\ Cardinality(DOMAIN fmt_out.fields) = NPairs(want)
              /\ \A j \in 1..NPairs(want) :
                    /\ SprintfV(KeyAt(want, j)) \in DOMAIN fmt_out.fields
                    /\ fmt_out.fields[SprintfV(KeyAt(want, j))]
                          \in {ValAt(want, j), VStr(SprintfV(ValAt(want, j)))}

---------------------------------------------------------------------------
(* Properties of escapeString.                                             *)

\* what the escaping rule writes for one byte
EscapeByte(b) ==
    IF b = 92 \/ b = 34 THEN <<92, b>>
    ELSE IF b = 10 THEN <<92, 110>>
    ELSE IF b = 13 THEN <<92, 114>>
    ELSE IF b = 9 THEN <<92, 116>>
    ELSE <<b>>

\* the result the rule describes for s
Escaped(s) ==
    LET quote == \E i \in 1..Len(s) : s[i] <= 32 \/ s[i] = 61 \/ s[i] = 34
        escape == \E i \in 1..Len(s) : s[i] = 92
        body == Concat([i \in 1..Len(s) |-> EscapeByte(s[i])])
    IN  IF ~quote /\ ~escape THEN s
        ELSE IF quote THEN <<34>> \o body \o <<34>>
        ELSE body

RECURSIVE UnescapeFrom(_, _)
UnescapeFrom(t, i) ==
    IF i > Len(t) THEN <<>>
    ELSE IF t[i] = 92 /\ i < Len(t)
    THEN <<CASE t[i + 1] = 110 -> 10
             [] t[i + 1] = 114 -> 13
             [] t[i + 1] = 116 -> 9
             [] OTHER -> t[i + 1]>> \o UnescapeFrom(t, i + 2)
    ELSE <<t[i]>> \o UnescapeFrom(t, i + 1)

\* the reader's side: the surrounding quotes dropped when there are any,
\* then every backslash escape undone
Unescape(t) ==
    IF Len(t) >= 2 /\ t[1] = 34 /\ t[Len(t)] = 34
    THEN UnescapeFrom(SubSeq(t, 2, Len(t) - 1), 1)
    ELSE UnescapeFrom(t, 1)

\* utf8.ValidString
ValidString(s) ==
    Concat([i \in 1..Len(Runes(s)) |-> WriteRune(Runes(s)[i])]) = s

\* C9: for every string s escapeString returns s unchanged when s needs
\* neither quotes nor escapes, and otherwise s with its backslashes, quotes,
\* newlines, carriage returns and tabs escaped, in quotes exactly when s
\* holds a byte <= ' ', '=' or '"'; un-escaping the result gives s back.
C9_EscapeRoundTrip ==
    es_pc = "returned" =>
        /\ es_ret = Escaped(es_s)
        /\ Unescape(es_ret) = es_s

\* the same, of the strings that are valid UTF-8
EscapeRoundTripValid ==
    (es_pc = "returned" /\ ValidString(es_s)) =>
        /\ es_ret = Escaped(es_s)
        /\ Unescape(es_ret) = es_s

---------------------------------------------------------------------------
(* Properties of the handlers.                                             *)

\* C1: when combiningHandler.Handle returns it has invoked each sub-handler
\* exactly once, in the order of registration, whatever errors the earlier
\* ones returned; while the loop runs the invocations made are the first
\* sub-handlers in that order; and a second call invokes them in the order
\* of the first.
C1_EachSubHandlerOnceInOrder ==
    /\ ch_pc = "loop" => ch_calls = [i \in 1..(ch_i - 1) |-> i]
    /\ ch_pc = "returned" => ch_calls = [i \in 1..ch_n |-> i]
    /\ (ch_pc = "returned" /\ ch_ncall >= 2) => ch_calls = ch_prev

\* a second call has returned from three sub-handlers, the first of which
\* returned an error
C1_Witness ==
    /\ ch_pc = "returned" /\ ch_ncall = 2 /\ ch_n = 3
    /\ ch_res[1] = "err"
    /\ ch_calls = <<1, 2, 3>>

\* C2: combiningHandler.Handle returns the last error encountered: when
\* some sub-handler failed, the error of the last one that failed, and nil
\* only when every sub-handler succeeded.
C2_LastErrorReturned ==
    ch_pc = "returned" =>
        LET failed == {j \in 1..Len(ch_res) : ch_res[j] = "err"}
        IN  /\ failed # {} =>
                  /\ ch_ret \in failed
                  /\ \A j \in failed : j <= ch_ret
            /\ ch_ret = 0 => failed = {}

\* C8: the filter invokes the wrapped handler exactly once and returns its
\* result when the record's level is at or above the threshold, and
\* otherwise returns nil without invoking it; so the wrapped handler has
\* received exactly the records at or above the threshold, in their order.
C8_FilterPassesAtOrAboveThreshold ==
    /\ fl_recv = SelectSeq(fl_sent, LAMBDA r : r.Level >= fl_level)
    /\ fl_sent # <<>> =>
          IF fl_last.record.Level >= fl_level
          THEN fl_last.invoked = 1 /\ fl_last.ret = fl_last.inner
          ELSE fl_last.invoked = 0 /\ fl_last.ret = "ok"

\* three records went in: one below the threshold, dropped, then one at the
\* threshold and one above it, both handed on
C8_Witness ==
    /\ fl_level = 3
    /\ Len(fl_sent) = 3
    /\ fl_sent[1].Level = 2 /\ fl_sent[2].Level = 3 /\ fl_sent[3].Level = 4
    /\ fl_recv = <<fl_sent[2], fl_sent[3]>>
    /\ fl_last.ret = "err"

\* C10: the file is opened lazily and at most once: nothing is open before
\* the first Handle; only the first Handle that gets past os.OpenFile opens,
\* and every Handle that returns has written to that one handle; a Handle
\* after a Close of it opens nothing and returns the closed file's write
\* error.
C10_OpenedLazilyAtMostOnce ==
    /\ Len(fh_files) <= 1
    /\ (\A i \in 1..Len(fh_log) : fh_log[i].op # "Handle") => fh_files = <<>>
    /\ \A i \in 1..Len(fh_log) :
          fh_log[i].op = "Handle" /\ fh_log[i].ret # "panic" =>
              /\ fh_log[i].h = 1
              /\ fh_log[i].opened <=>
                    \A j \in 1..(i - 1) :
                        fh_log[j].op = "Handle" => fh_log[j].ret = "panic"
    /\ \A i, j \in 1..Len(fh_log) :
          (/\ i < j
           /\ fh_log[i].op = "Close" /\ fh_log[i].h # 0
           /\ fh_log[j].op = "Handle") =>
              ~fh_log[j].opened /\ fh_log[j].ret = "err"

\* a Handle opened the file and wrote, a Close followed, and a later Handle
\* wrote to the closed handle and returned the error
C10_Witness ==
    \E i, j, k \in 1..Len(fh_log) :
        /\ i < j /\ j < k
        /\ fh_log[i].op = "Handle" /\ fh_log[i].opened /\ fh_log[i].ret = "ok"
        /\ fh_log[j].op = "Close"
        /\ fh_log[k].op = "Handle" /\ fh_log[k].h = 1 /\ fh_log[k].ret = "err"

\* the goroutines inside Handle's or Messages' critical section
InCritical ==
    {p \in DOMAIN mh_pc : mh_pc[p] \in {"locked", "read", "stored", "copy"}}

====
